---- MODULE Spec2Model ----
(***************************************************************************)
(* Model of the template catalogue of legalplates-server: ingestion with   *)
(* the duplicate check (TemplateGenerator.generate_template), the nearest- *)
(* neighbour search and the match pipeline of POST /draft/match-stream.    *)
(*                                                                         *)
(* Scores (cosine similarity, confidence) are fixed-point numbers in       *)
(* units of 1/10000, so 0.75 is 7500 and 0.90 is 9000.                     *)
(***************************************************************************)
EXTENDS Integers, Sequences, FiniteSets, TLC

\* ------------------------------------------------------------------ bounds
\* Largest number of template rows the store may hold.
MaxTemplates == 2

\* ------------------------------------------------------- program constants
SEARCH_THRESHOLD == 7500
DUPLICATE_THRESHOLD == 9000
WEB_CONFIDENCE == 8500
TOP_K == 5

\* ------------------------------------------------------------- embeddings
\* The embedding model and pgvector's cosine distance are external.  An
\* embedding is one of four unit vectors; NoEmbedding is Python's None / SQL
\* NULL.  Documents embed to the first three, queries to the first or the
\* last.
NoEmbedding == 0
Embeddings == {1, 2, 3, 4}
DocumentEmbeddings == {1, 2, 3}
QueryEmbeddings == {1, 4}

\* Cosine similarity of the four vectors, 1 - cosine_distance, in 1/10000.
CosineTable ==
    << << 10000,  9000,  7496, -2000 >>,
       <<  9000, 10000,  8999,  1000 >>,
       <<  7496,  8999, 10000,  3000 >>,
       << -2000,  1000,  3000, 10000 >> >>

\* similarity = 1.0 - float(distance)
Similarity(a, b) == CosineTable[a][b]

\* round(similarity_score, 3), expressed again in 1/10000 (half to even).
Round3(x) ==
    LET q == x \div 10
        r == x % 10
        up == r > 5 \/ (r = 5 /\ q % 2 = 1)
    IN  10 * (IF up THEN q + 1 ELSE q)

Max(a, b) == IF a >= b THEN a ELSE b

\* --------------------------------------------------------------- processes
Uploader == "u1"
Uploads == {Uploader, "u2"}
Query == "q"
\* generate_template runs for an upload or inside the fallback of the query.
Ingestors == Uploads \cup {Query}

\* Variable lists the extraction step may return (keys only).
VariableLists == { <<>>, <<"name", "name">> }

VARIABLES
    templates,   \* rows of table template: [id, embedding, checked, seen]
    variables,   \* rows of table template_variable: [template_id, n, key]
    nextId,      \* next primary key of table template
    ing,         \* per ingestor: the running generate_template call
    match,       \* the running generate_updates() of POST /draft/match-stream
    instances,   \* rows of table instance: [id, template_id, draft_md]
    api,         \* the last response of /draft/generate and /template/{template_id}
    render,      \* a call of render_draft and get_missing_variables
    sim          \* a call of EmbeddingService.compute_similarity

\* What the draft and template endpoints, the render engine and the
\* similarity of two vectors work on.
apiVars == << instances, api, render, sim >>

vars == << templates, variables, nextId, ing, match, instances, api, render, sim >>

\* A generate_template call that has not started: no locals, no result.
\* checked and seen record whether and against which rows the duplicate
\* check ran; created is the row this call inserted, ret the row it returned.
IdleIngestion ==
    [pc |-> "idle", embedding |-> NoEmbedding, checked |-> FALSE, seen |-> {},
     status |-> "none", created |-> 0, wanted |-> 0, ret |-> 0, similarity |-> 0,
     detail |-> "", branch |-> ""]

TemplateIds == { t.id : t \in templates }

VariablesOf(id) == { v \in variables : v.template_id = id }

\* Rows with a non-null embedding: filter(Template.embedding.isnot(None)).
Indexed == { t \in templates : t.embedding # NoEmbedding }

\* check_duplicate_template: the nearest indexed row, if any, is a duplicate
\* when similarity >= similarity_threshold.  Returns the set of rows the
\* query may return first (ties in distance are in no defined order); the
\* empty set stands for None.
NearestRows(e) ==
    { t \in Indexed :
        \A u \in Indexed : Similarity(e, t.embedding) >= Similarity(e, u.embedding) }

\* The check reporting the nearest row whatever its similarity.
check_duplicate_nearest(e, threshold) == NearestRows(e)

\* The check with the boundary left out: similarity > threshold.
check_duplicate_strict(e, threshold) ==
    { t \in NearestRows(e) : Similarity(e, t.embedding) > threshold }

\* The check comparing the distance, not the similarity, with the threshold.
check_duplicate_by_distance(e, threshold) ==
    { t \in NearestRows(e) : 10000 - Similarity(e, t.embedding) >= threshold }

check_duplicate_template(e, threshold) ==
    { t \in NearestRows(e) : Similarity(e, t.embedding) >= threshold }


\* ------------------------------------------------------- generate_template
\* Calls that may still insert a row; a call starts only while the store has
\* room for every such call, so a started call can always finish.
InFlight ==
    { p \in Ingestors :
        \/ ing[p].pc \in {"check", "save"}
        \/ p = Query /\ match.pc \in {"search", "rerank", "fallback"} }

HasRoom == nextId + Cardinality(InFlight) <= MaxTemplates

\* The end of a call: the locals are gone, the outcome stays.  status is
\* "created", "existing" or "error" (an HTTPException); ret is the returned
\* row, created the row the call inserted, wanted the number of variables it
\* had to save with it, similarity the score the duplicate check returned,
\* detail what raised in a failed duplicate check or while the variables
\* were saved, branch which branch of the classification the call took
\* ("legal" or "conversion", known once the variables are saved).
Finished(call, st, r) ==
    [IdleIngestion EXCEPT !.pc = "done", !.status = st, !.ret = r,
                          !.checked = call.checked, !.created = call.created,
                          !.wanted = call.wanted, !.similarity = call.similarity,
                          !.detail = call.detail, !.branch = call.branch]

\* Lines 117-249: input validation, classification, extraction of variables
\* and body, front matter and the embedding.  Any failure before the store is
\* touched ends the call with an HTTPException; a failed embedding does not:
\* _generate_embedding_async returns None and the call goes on.
GenerateTemplateStart(p) ==
    /\ \E ok \in BOOLEAN, e \in DocumentEmbeddings \cup {NoEmbedding} :
          LET call == [IdleIngestion EXCEPT !.embedding = e]
          IN  ing' = [ing EXCEPT ![p] =
                IF ~ok
                THEN Finished(IdleIngestion, "error", 0)
                ELSE IF e # NoEmbedding
                     THEN [call EXCEPT !.pc = "check"]
                     ELSE [call EXCEPT !.pc = "save"]]
    /\ UNCHANGED << templates, variables, nextId >>

\* POST /upload: one generate_template call per uploaded document.
Upload(p) ==
    /\ ing[p].pc \in {"idle", "done"}
    /\ HasRoom
    /\ GenerateTemplateStart(p)
    /\ UNCHANGED << match, apiVars >>

\* A failing check only noted: the call goes on to insert.
CheckFailureIgnored(call) == [call EXCEPT !.pc = "save", !.detail = "duplicate_check"]

\* Lines 664-669: a failing check raises HTTPException 500 "Failed to check
\* for duplicate templates", which lines 355-358 pass on after a rollback.
CheckFailed(call) == Finished([call EXCEPT !.detail = "duplicate_check"], "error", 0)

\* Lines 251-300: the duplicate check and, on a hit, the return of the
\* existing row.  A failure of the check propagates as HTTPException 500.
IngestCheck(p) ==
    /\ ing[p].pc = "check"
    /\ \E dbOk \in BOOLEAN :
          LET dups == check_duplicate_template(ing[p].embedding, DUPLICATE_THRESHOLD)
              seenNow == [ing[p] EXCEPT !.checked = TRUE, !.seen = TemplateIds]
          IN  IF ~dbOk
              THEN ing' = [ing EXCEPT ![p] = CheckFailed(ing[p])]
              ELSE IF dups # {}
                   THEN \E t \in dups :
                          ing' = [ing EXCEPT ![p] =
                            Finished([seenNow EXCEPT !.similarity =
                                        Similarity(ing[p].embedding, t.embedding)],
                                     "existing", t.id)]
                   ELSE ing' = [ing EXCEPT ![p] = [seenNow EXCEPT !.pc = "save"]]
    /\ UNCHANGED << templates, variables, nextId, match, apiVars >>

\* Lines 302-318: db.add(template_record); db.commit(); db.refresh(...).
\* A failed commit is rolled back and reported.  The row records, beside
\* its embedding, the rows its duplicate check looked at (seen) and whether
\* the check ran at all (checked).
IngestSaveTemplate(p) ==
    /\ ing[p].pc = "save"
    /\ \E dbOk \in BOOLEAN :
          IF dbOk
          THEN /\ templates' = templates \cup
                    {[id |-> nextId, embedding |-> ing[p].embedding,
                      checked |-> ing[p].checked, seen |-> ing[p].seen]}
               /\ nextId' = nextId + 1
               /\ ing' = [ing EXCEPT ![p] =
                     [ing[p] EXCEPT !.pc = "savevars", !.created = nextId,
                                    !.seen = {}]]
          ELSE /\ ing' = [ing EXCEPT ![p] = Finished(ing[p], "error", 0)]
               /\ UNCHANGED << templates, nextId >>
    /\ UNCHANGED << variables, match, apiVars >>

VariableRows(id, vs) ==
    { [template_id |-> id, n |-> i, key |-> vs[i]] : i \in 1..Len(vs) }

\* The attributes of class TemplateVariable (models/template_variable.py,
\* lines 10-19) and the keywords of the constructor call of lines 336-347.
TemplateVariableColumns ==
    { "id", "template_id", "key", "label", "description", "example", "required",
      "dtype", "regex", "enum_values" }

ConstructorKeywords ==
    { "template_id", "key", "label", "description", "example", "required",
      "dtype", "regex", "enum_values", "question" }

\* A constructor taking whatever keyword it is given.
ConstructorAcceptsAll(keywords) == FALSE

\* The declarative constructor of SQLAlchemy raises TypeError for a keyword
\* that is no attribute of the class.
ConstructorRaises(keywords) == keywords \ TemplateVariableColumns # {}

\* Lines 320-353: one TemplateVariable per extracted variable, a second
\* commit, and the return of (template_record, questions).  The
\* classification (legal) and the extracted variables (vs) were obtained
\* before the duplicate check; nothing reads them until here, so they are
\* drawn here.  questions is bound only on the legal-document branch (line
\* 194): on the conversion branch the first use of it raises NameError, at
\* line 325 when there is a variable and at line 353 otherwise; the handler
\* at 366 rolls back what is pending (the template row is already committed)
\* and reports 500.  On the legal-document branch the first variable stops
\* at line 336: the constructor is given question=, which class
\* TemplateVariable does not have, and raises TypeError, handled the same
\* way; so only a document without variables gets through.  A failed second
\* commit is rolled back the same way; it would fail too with variables to
\* insert whose template row has been deleted meanwhile (the foreign key of
\* template_variable.template_id).
IngestSaveVariables(p) ==
    /\ ing[p].pc = "savevars"
    /\ \E dbOk \in BOOLEAN, legal \in BOOLEAN, vs \in VariableLists :
          LET raised ==
                  IF vs # <<>> /\ ~legal THEN "NameError"
                  ELSE IF vs # <<>> /\ ConstructorRaises(ConstructorKeywords)
                       THEN "TypeError"
                  ELSE IF ~dbOk \/ (vs # <<>> /\ ing[p].created \notin TemplateIds)
                       THEN "commit"
                  ELSE IF ~legal THEN "NameError"
                  ELSE ""
              call == [ing[p] EXCEPT !.wanted = Len(vs), !.detail = raised,
                                     !.branch = IF legal THEN "legal"
                                                ELSE "conversion"]
          IN  IF raised = ""
              THEN /\ variables' = variables \cup VariableRows(call.created, vs)
                   /\ ing' = [ing EXCEPT ![p] = Finished(call, "created", call.created)]
              ELSE /\ ing' = [ing EXCEPT ![p] = Finished(call, "error", 0)]
                   /\ UNCHANGED variables
    /\ UNCHANGED << templates, nextId, match, apiVars >>

\* ------------------------------------------- POST /draft/match-stream
\* Statuses of the event stream.  A result event ("success") and an error
\* event ("error") end the stream; the others report progress.
TerminalEvents == {"success", "error"}

FallbackAnnounce == << "searching_web", "fetching_content", "generating_template" >>

\* One run of generate_updates.  events is the stream so far; candidates is
\* templates_data; reply is what the re-ranker did ("none" before it is
\* called); conforms is whether a found reply has the keys the router
\* indexes; quality is match_quality (-1 while not computed); fallback is
\* why the web was searched ("no" when it was not); failedAt is the stage
\* that raised; inserted is the row the fallback added; result is the
\* top_match of the final event with, beside it, the number of alternatives
\* of that event; web_url is the url of the web result the fallback used;
\* startId is the next primary key when the run began (rows with a smaller
\* id were in the store before the query);
\* embedCalls, rerankCalls and fallbackCalls
\* count the calls the run makes to the embedding of the query, the re-ranker
\* and the web source; docEmbedCalls counts the embeddings of a document made
\* by generate_template inside the web fallback.
IdleMatch ==
    [pc |-> "idle", events |-> <<>>, candidates |-> <<>>, reply |-> "none",
     conforms |-> FALSE, quality |-> -1, fallback |-> "no", outcome |-> "none",
     failedAt |-> "none", inserted |-> 0,
     result |-> [template_id |-> 0, confidence |-> 0, semantic_similarity |-> 0,
                 source |-> "none", web_url |-> "None", alternatives |-> 0],
     web_url |-> "None", startId |-> 0,
     embedCalls |-> 0, rerankCalls |-> 0, fallbackCalls |-> 0,
     docEmbedCalls |-> 0]

\* The handlers of lines 180-187 (251-258, 312-319) and 356-358: an
\* exception of the run becomes an error event, the last of the stream.
Failed(m, stage) ==
    [m EXCEPT !.pc = "done", !.outcome = "error", !.failedAt = stage,
              !.events = @ \o << "error" >>]

\* A pipeline that searches again where the code goes to the web.
ToFallbackRetrying(m) ==
    [m EXCEPT !.pc = "search", !.events = @ \o FallbackAnnounce]

\* Lines 141-150, 212-221, 273-282: the progress events before the web call.
ToFallback(m) ==
    [m EXCEPT !.pc = "fallback", !.events = @ \o FallbackAnnounce]

\* Lines 119-128: the first event.
MatchStart ==
    /\ match.pc \in {"idle", "done"}
    /\ HasRoom
    /\ match' = [IdleMatch EXCEPT !.pc = "search", !.events = << "searching" >>,
                                  !.startId = nextId]
    /\ UNCHANGED << templates, variables, nextId, ing, apiVars >>

\* The orderings the store may return for ORDER BY distance: every indexed
\* row once, by descending similarity, rows at equal distance in any order.
SortedByDistance(e) ==
    { sq \in [1..Cardinality(Indexed) -> Indexed] :
        /\ \A i, j \in DOMAIN sq : i # j => sq[i] # sq[j]
        /\ \A i, j \in DOMAIN sq :
             i < j => Similarity(e, sq[i].embedding) >= Similarity(e, sq[j].embedding) }

Head_k(sq, k) == SubSeq(sq, 1, IF Len(sq) < k THEN Len(sq) ELSE k)

\* find_similar_templates, lines 713-731: the top_k nearest indexed rows
\* with similarity 1 - distance.
find_similar_templates(e, top_k) ==
    { [i \in DOMAIN Head_k(sq, top_k) |->
         [template |-> sq[i].id, score |-> Similarity(e, sq[i].embedding)]] :
      sq \in SortedByDistance(e) }

\* Lines 192-203: templates_data, with the score rounded to three places.
templates_data(similar) ==
    [i \in DOMAIN similar |->
       [template_id |-> similar[i].template,
        semantic_similarity |-> Round3(similar[i].score)]]

\* A failed embedding absorbed into the web search like the other failures.
EmbeddingFailedToFallback(m) ==
    ToFallback([m EXCEPT !.failedAt = "embedding", !.fallback = "no_match"])

\* Lines 700-706 and 746-747 of template_generator.py, then 356-358 of the
\* router: a query that cannot be embedded ends the run with an error event.
EmbeddingFailed(m) == Failed(m, "embedding")

\* The empty result not looked at: the candidates go on to the re-ranker.
ColdIndexIgnored(similar) == FALSE

\* Line 137: if not similar_templates.
ColdIndex(similar) == similar = <<>>

\* Lines 130-189: stage 1.  The query is embedded (a failure is an
\* HTTPException 500 out of find_similar_templates, as is a failing store),
\* the index is searched, and an empty result goes to the web.
MatchSearch ==
    /\ match.pc = "search"
    /\ LET m == [match EXCEPT !.embedCalls = @ + 1]
       IN  \E embedded \in BOOLEAN, dbOk \in BOOLEAN, e \in QueryEmbeddings :
             IF ~embedded
             THEN match' = EmbeddingFailed(m)
             ELSE IF ~dbOk
             THEN match' = Failed(m, "search")
             ELSE \E similar \in find_similar_templates(e, TOP_K) :
                    IF ColdIndex(similar)
                    THEN match' = ToFallback([m EXCEPT !.fallback = "cold"])
                    ELSE match' = [m EXCEPT !.pc = "rerank",
                                            !.candidates = templates_data(similar)]
    /\ UNCHANGED << templates, variables, nextId, ing, apiVars >>

\* ---- the re-ranking collaborator (GeminiService.find_matching_template)
\* What the model call can do.  "raises": generate_content raises;
\* "unparsable": json.loads fails; "no_top": found true with a null
\* top_match (line 306 raises inside the try): the three come back as
\* {"top_match": None, "alternatives": [], "found": False}, and "not_found",
\* a reply with found false, is read the same way at line 208 of the router.
\* Otherwise the reply is found true with a top_match object, returned as
\* it is.
MissingKey == -1
NotANumber == -2
ForeignId == 99
ConfidenceValues == {3000, 7499, 7500}
\* How many alternatives a reply may carry.
AlternativeCounts == {0, 1}

CandidateIds(cands) == { cands[i].template_id : i \in DOMAIN cands }

TopMatches(cands) ==
    [template_id : CandidateIds(cands) \cup {ForeignId, MissingKey},
     confidence : ConfidenceValues \cup {MissingKey, NotANumber}]

RerankerFailures == {"raises", "unparsable", "not_found", "no_top"}

\* Lines 311-317 of gemini_service.py and line 208 of the router: what a
\* failed re-ranking looks like to the pipeline.
Classification(kind) == IF kind \in RerankerFailures THEN "no_match" ELSE "found"

\* _get_semantic_similarity, lines 73-78.
_get_semantic_similarity(template_id, cands) ==
    IF \E i \in DOMAIN cands : cands[i].template_id = template_id
    THEN LET i == CHOOSE i \in DOMAIN cands :
                    /\ cands[i].template_id = template_id
                    /\ \A j \in DOMAIN cands :
                         cands[j].template_id = template_id => i <= j
         IN  cands[i].semantic_similarity
    ELSE 0

\* Lines 265-267: confidence (0.0 when the key is missing) and match_quality.
Confidence(top) == IF top.confidence = MissingKey THEN 0 ELSE top.confidence

match_quality(top, cands) ==
    Max(Confidence(top), _get_semantic_similarity(top.template_id, cands))

\* The decision with the boundary on the wrong side: quality <= threshold.
BelowThresholdInclusive(quality) == quality <= SEARCH_THRESHOLD

\* Line 269: the threshold decision.
BelowThreshold(quality) == quality < SEARCH_THRESHOLD

\* Lines 266-267 raise KeyError without a template_id and TypeError when the
\* confidence is not a number.
TopMatchUsable(top) ==
    top.template_id # MissingKey /\ top.confidence # NotANumber

\* Lines 321-354: the result event for a database match; the alternatives
\* are those of the re-ranker's reply, alternatives their number.
Accepted(m, top, quality, alternatives) ==
    [m EXCEPT !.pc = "done", !.outcome = "accepted", !.quality = quality,
              !.events = @ \o << "success" >>,
              !.result = [template_id |-> top.template_id,
                          confidence |-> Confidence(top),
                          semantic_similarity |->
                              _get_semantic_similarity(top.template_id, m.candidates),
                          source |-> "database", web_url |-> "None",
                          alternatives |-> alternatives]]

\* Lines 205-354: stages 2 and 3.  alternativesOk is whether every
\* alternative carries the keys lines 339-342 index (KeyError otherwise).
MatchRerank ==
    /\ match.pc = "rerank"
    /\ LET m == [match EXCEPT !.rerankCalls = @ + 1]
       IN  \/ \E kind \in RerankerFailures :
                match' = ToFallback([m EXCEPT !.reply = Classification(kind),
                                                !.fallback = "no_match"])
           \/ \E top \in TopMatches(m.candidates), alternativesOk \in BOOLEAN :
                LET r == [m EXCEPT !.reply = Classification("found"),
                                   !.conforms = TopMatchUsable(top) /\ alternativesOk]
                    quality == match_quality(top, m.candidates)
                IN  IF ~TopMatchUsable(top)
                    THEN match' = Failed(r, "rerank")
                    ELSE IF BelowThreshold(quality)
                         THEN match' = ToFallback([r EXCEPT !.quality = quality,
                                                            !.fallback = "below"])
                         ELSE IF alternativesOk
                              THEN \E alternatives \in AlternativeCounts :
                                     match' = Accepted(r, top, quality, alternatives)
                              ELSE match' = Failed([r EXCEPT !.quality = quality],
                                                   "rerank")
    /\ UNCHANGED << templates, variables, nextId, ing, apiVars >>

\* ---- the web source (ExaService)
\* A search result: its url ("None" when it has none) and whether its text,
\* or the page fetched from its url, has the 100 characters asked for.
NoResult == [url |-> "None", usable |-> FALSE]

WebResultLists ==
    { <<>>,
      << [url |-> "None", usable |-> TRUE] >>,
      << [url |-> "https://a", usable |-> FALSE] >>,
      << [url |-> "None", usable |-> TRUE], [url |-> "https://a", usable |-> TRUE] >>,
      << [url |-> "https://a", usable |-> TRUE] >> }

\* The loop taking the first result with enough content, with or without url.
first_result_with_content(results) ==
    LET good == { i \in DOMAIN results : results[i].usable }
    IN  IF good = {} THEN NoResult
        ELSE results[CHOOSE i \in good : \A j \in good : i <= j]

\* get_best_template_from_web, exa_service.py lines 316-340: the first result
\* that has a url and enough content; NoResult stands for None.
get_best_template_from_web(results) ==
    LET good == { i \in DOMAIN results : results[i].url # "None" /\ results[i].usable }
    IN  IF good = {} THEN NoResult
        ELSE results[CHOOSE i \in good : \A j \in good : i <= j]

\* WebTemplateGenerator.create_template_from_web, lines 60-99: the web
\* search (available is false when the service is not configured or the
\* search raises; no result is usable when it finds nothing or too little
\* text: an HTTPException each time), then generate_template on the content
\* found, which embeds the document (line 241 of template_generator.py)
\* unless it fails before that.
MatchFallback ==
    /\ match.pc = "fallback"
    /\ LET m == [match EXCEPT !.fallbackCalls = @ + 1]
       IN  \E available \in BOOLEAN, results \in WebResultLists :
             LET web_result == get_best_template_from_web(results)
                 found == available /\ web_result # NoResult
             IN
             IF found
             THEN /\ GenerateTemplateStart(Query)
                  /\ match' = [m EXCEPT !.pc = "generating",
                                        !.web_url = web_result.url,
                                        !.docEmbedCalls =
                                            IF ing'[Query].pc = "done" THEN @ ELSE @ + 1]
             ELSE /\ match' = Failed(m, "fallback")
                  /\ UNCHANGED << templates, variables, nextId, ing >>
    /\ UNCHANGED apiVars

\* The web result without the return of line 178: the run goes on to the
\* database result of line 354.
WebResultWithoutReturn(m, template_id) ==
    [m EXCEPT !.pc = "done", !.outcome = "web",
              !.events = @ \o << "creating_variables", "finalizing", "success",
                                 "success" >>]

\* Lines 49-70 and 157-178: the result event for a web template.
WebResult(m, template_id) ==
    [m EXCEPT !.pc = "done", !.outcome = "web",
              !.events = @ \o << "creating_variables", "finalizing", "success" >>,
              !.result = [template_id |-> template_id,
                          confidence |-> WEB_CONFIDENCE,
                          semantic_similarity |-> MissingKey,
                          source |-> "web", web_url |-> m.web_url,
                          alternatives |-> 0]]

\* Lines 152-187 (and 223-258, 284-319): the return of
\* create_template_from_web, or the HTTPException it raised.  The frame of
\* the generate_template call is gone; inserted keeps the row it added.
MatchFallbackReturn ==
    /\ match.pc = "generating"
    /\ ing[Query].pc = "done"
    /\ LET m == [match EXCEPT !.inserted = ing[Query].created]
       IN  match' = IF ing[Query].status = "error"
                    THEN Failed(m, "fallback")
                    ELSE WebResult(m, ing[Query].ret)
    /\ ing' = [ing EXCEPT ![Query] = IdleIngestion]
    /\ UNCHANGED << templates, variables, nextId, apiVars >>

\* ------------------------------------------------------- the render engine
\* Text is a sequence of tokens: single characters and the front-matter
\* delimiter "---".  None is Python's None as an answer value.
Dash == "---"
None == << "None" >>
WordChars == {"a", "b", "x"}

\* f"{{{{{key}}}}}": the placeholder of a key.
Placeholder(key) == << "{", "{" >> \o key \o << "}", "}" >>

\* placeholder in draft
Contains(s, sub) ==
    \E i \in 1..(Len(s) - Len(sub) + 1) : SubSeq(s, i, i + Len(sub) - 1) = sub

\* str.replace(old, new): every non-overlapping occurrence, left to right.
RECURSIVE str_replace(_, _, _)
str_replace(s, old, new) ==
    IF Len(s) < Len(old) THEN s
    ELSE IF SubSeq(s, 1, Len(old)) = old
         THEN new \o str_replace(SubSeq(s, Len(old) + 1, Len(s)), old, new)
         ELSE << s[1] >> \o str_replace(Tail(s), old, new)

\* str.strip() for the one whitespace character of the alphabet.
RECURSIVE strip(_)
strip(s) ==
    IF s = <<>> THEN s
    ELSE IF s[1] = " " THEN strip(Tail(s))
    ELSE IF s[Len(s)] = " " THEN strip(SubSeq(s, 1, Len(s) - 1))
    ELSE s

\* Lines 515-528 and 577-580: body_md.split("---", 2)[2] when the text
\* starts with "---" and has a second "---", the whole text otherwise.
AfterFrontMatter(s) ==
    LET later == { i \in 2..Len(s) : s[i] = Dash }
    IN  IF s # <<>> /\ s[1] = Dash /\ later # {}
        THEN SubSeq(s, (CHOOSE i \in later : \A j \in later : i <= j) + 1, Len(s))
        ELSE s

\* str(value) if value is not None else ""
value_str(value) == IF value = None THEN <<>> ELSE value

\* Lines 531-538: the loop over answers.items(), from the i-th item on.
\* answers is the dict in its iteration order: a sequence of <<key, value>>.
RECURSIVE ReplaceEach(_, _, _)
ReplaceEach(draft, answers, i) ==
    IF i > Len(answers) THEN draft
    ELSE LET placeholder == Placeholder(answers[i][1])
         IN  ReplaceEach(IF Contains(draft, placeholder)
                         THEN str_replace(draft, placeholder, value_str(answers[i][2]))
                         ELSE draft,
                         answers, i + 1)

\* What render_draft raises for a template without body_md (line 503) and
\* for answers that are not a dict (line 507).
ValueError == << "ValueError" >>

\* An answers value that is not a dict (a list, a string, None); it has the
\* shape of a dict of one item so that it can stand where a dict stands.
NotADict == << << << "[" >>, << "]" >> >> >>

\* not isinstance(answers, dict)
IsDict(answers) == answers # NotADict

\* render_draft, lines 500-541.
render_draft(template_body, answers) ==
    IF template_body = <<>> THEN ValueError
    ELSE IF ~IsDict(answers) THEN ValueError
    ELSE LET stripped == AfterFrontMatter(template_body)
             draft == IF stripped = template_body THEN template_body
                      ELSE strip(stripped)
         IN  ReplaceEach(draft, answers, 1)

\* re.findall(r'\{\{(\w+)\}\}', s): the keys of the matches, in order.
RECURSIVE re_findall(_)
re_findall(s) ==
    IF Len(s) < 5 THEN <<>>
    ELSE LET ends == { j \in 3..(Len(s) - 2) :
                         /\ \A k \in 3..j : s[k] \in WordChars
                         /\ s[j + 1] = "}" /\ s[j + 2] = "}" }
         IN  IF s[1] = "{" /\ s[2] = "{" /\ ends # {}
             THEN LET j == CHOOSE j \in ends : \A k \in ends : j <= k
                  IN  << SubSeq(s, 3, j) >> \o re_findall(SubSeq(s, j + 3, Len(s)))
             ELSE re_findall(Tail(s))

\* dict lookup: the keys of answers, and answers[key].
AnswerKeys(answers) == { answers[i][1] : i \in DOMAIN answers }
AnswerOf(answers, key) ==
    answers[CHOOSE i \in DOMAIN answers : answers[i][1] = key][2]

\* The test with str.strip() left out: a blank answer counts as given.
IsMissingUnlessBlank(answers, key) ==
    \/ key \notin AnswerKeys(answers)
    \/ AnswerOf(answers, key) = None
    \/ AnswerOf(answers, key) = <<>>

\* Line 589: placeholder not in answers or answers[placeholder] is None or
\* str(answers[placeholder]).strip() == "".
IsMissing(answers, key) ==
    \/ key \notin AnswerKeys(answers)
    \/ AnswerOf(answers, key) = None
    \/ strip(AnswerOf(answers, key)) = <<>>

\* set(placeholders)
python_set(list) == { list[i] : i \in DOMAIN list }

\* The lists a loop over a Python set can build: each element once, in an
\* order the language does not define.
ListsOf(S) ==
    { sq \in [1..Cardinality(S) -> S] : \A i, j \in DOMAIN sq : i # j => sq[i] # sq[j] }

\* Lines 583-584: the placeholder keys of a body, after its front matter.
extract_keys(template_body) == python_set(re_findall(AfterFrontMatter(template_body)))

\* get_missing_variables, lines 562-593: the lists it may return.  Answers
\* that are not a dict are read as the empty dict (lines 568-569).
get_missing_variables(template_body, answers) ==
    IF template_body = <<>> THEN { <<>> }
    ELSE ListsOf({ placeholder \in extract_keys(template_body) :
                     IsMissing(IF IsDict(answers) THEN answers ELSE <<>>,
                               placeholder) })

\* ---- one call of the render engine on a body and an answers dict
\* Largest number of items of an answers dict.
MaxAnswers == 2

RenderKeys == { << "a" >>, << "b" >>, << "a", "b" >> }

\* Answer values: null, empty, blank, plain text, and text that itself holds
\* placeholder syntax.
RenderValues ==
    { None, <<>>, << " " >>, << "x" >>,
      Placeholder(<< "b" >>), Placeholder(<< "a" >>) \o << "x" >> }

\* A dict in iteration order: items with pairwise different keys.
AnswerDicts(keys, values, n) ==
    UNION { { d \in [1..k -> keys \X values] :
                \A i, j \in 1..k : i # j => d[i][1] # d[j][1] } : k \in 0..n }

RenderBodies ==
    { Placeholder(<< "a" >>),
      Placeholder(<< "a" >>) \o << " " >> \o Placeholder(<< "b" >>),
      Placeholder(<< "a" >>) \o Placeholder(<< "a" >>),
      Placeholder(<< "a", "b" >>) \o Placeholder(<< "a" >>),
      << "x" >>,
      << "{", "{", "a", " ", "}", "}" >>,
      << Dash, "x", Dash, " " >> \o Placeholder(<< "b" >>),
      << Dash >> \o Placeholder(<< "a" >>) }

IdleRender ==
    [pc |-> "idle", body |-> <<>>, answers |-> <<>>, draft |-> <<>>, missing |-> <<>>]

\* draft = render_draft(template, answers)
RenderDraft ==
    /\ render.pc = "input"
    /\ render' = [render EXCEPT !.pc = "rendered",
                                !.draft = render_draft(render.body, render.answers)]
    /\ UNCHANGED << templates, variables, nextId, ing, match, instances, api, sim >>

\* missing = get_missing_variables(template, answers)
GetMissingVariables ==
    /\ render.pc = "rendered"
    /\ \E missing \in get_missing_variables(render.body, render.answers) :
          render' = [render EXCEPT !.pc = "checked", !.missing = missing]
    /\ UNCHANGED << templates, variables, nextId, ing, match, instances, api, sim >>

\* ------------------------------------- /draft/generate and /template/{template_id}
\* Largest number of rows of table instance.
MaxInstances == 1

\* The bodies the extraction wrote for the rows, each behind its YAML front
\* matter (line 233 of template_generator.py): one with two placeholders, one
\* with none.  Row i holds the i-th of them, cyclically.
DraftBodies ==
    << << Dash, "x", Dash, " " >> \o Placeholder(<< "a" >>) \o << " " >>
                                 \o Placeholder(<< "b" >>),
       << Dash, "x", Dash, " ", "x" >> >>

\* template.body_md
template_body(id) == DraftBodies[((id - 1) % Len(DraftBodies)) + 1]

\* The answers of the requests to /draft/generate.
DraftAnswers ==
    { <<>>, << << << "a" >>, << "x" >> >> >>, << << << "b" >>, None >> >> }

\* No call yet.  op is the endpoint, id the template asked for, status the
\* HTTP status, detail which handler raised an error ("database" for the
\* SQLAlchemyError handler, "unexpected" for the Exception handler),
\* missing the missing_variables of the response, instance_id
\* the instance a draft was saved as, variables_count the number of variables
\* the template had when it was deleted (line 211 of routers/template.py).
IdleApi ==
    [op |-> "none", id |-> 0, status |-> 0, detail |-> "", missing |-> <<>>,
     instance_id |-> 0, variables_count |-> 0]

Response(op, id, status) == [IdleApi EXCEPT !.op = op, !.id = id, !.status = status]

\* db.add(instance); db.commit(): the row saved for a draft.
SavedInstance(id, draft_md) ==
    [id |-> Cardinality(instances) + 1, template_id |-> id, draft_md |-> draft_md]

\* The store during one request: it works, a query raises, or the commit
\* raises (SQLAlchemyError each time).
StoreOutcomes == {"ok", "query_fails", "commit_fails"}

\* A handler that refuses to save a draft with missing variables.
DraftRefusedWhenMissing(draft_md, missing) == draft_md = ValueError \/ missing # <<>>

\* Lines 514-520 and 553-556: what stops generate_draft before the instance
\* is saved is render_draft raising; missing variables are only logged.
DraftRefused(draft_md, missing) == draft_md = ValueError

\* draft.py:514 and 518: what render_draft and get_missing_variables return
\* for each stored body and each request's answers.  Both are pure, so they
\* are tabulated once per (id, answers).
draft_md_of ==
    [id \in 1..MaxTemplates |->
        [answers \in DraftAnswers |-> render_draft(template_body(id), answers)]]

missing_of ==
    [id \in 1..MaxTemplates |->
        [answers \in DraftAnswers |->
            get_missing_variables(template_body(id), answers)]]

\* generate_draft, routers/draft.py lines 494-556.  The template is looked
\* up (404 when absent), the draft rendered, the missing variables listed,
\* and the instance committed.  The store may fail at the lookup or at the
\* commit; the commit fails too when the request gave user_query as null
\* (the column instance.user_query is NOT NULL); each ends in a rollback and
\* 500.
GenerateDraft ==
    /\ Cardinality(instances) < MaxInstances
    /\ \E id \in 1..MaxTemplates, answers \in DraftAnswers,
          store \in StoreOutcomes \cup {"null_user_query"} :
          IF store = "query_fails"
          THEN /\ api' = [Response("generate", id, 500) EXCEPT !.detail = "database"]
               /\ UNCHANGED instances
          ELSE IF id \notin TemplateIds
          THEN /\ api' = Response("generate", id, 404)
               /\ UNCHANGED instances
          ELSE \E missing \in missing_of[id][answers] :
                 LET draft_md == draft_md_of[id][answers]
                 IN  IF DraftRefused(draft_md, missing)
                     THEN /\ api' = [Response("generate", id, 500) EXCEPT
                                       !.detail = "unexpected"]
                          /\ UNCHANGED instances
                     ELSE IF store \in {"commit_fails", "null_user_query"}
                     THEN /\ api' = [Response("generate", id, 500) EXCEPT
                                       !.detail = "database"]
                          /\ UNCHANGED instances
                     ELSE /\ instances' = instances \cup {SavedInstance(id, draft_md)}
                          /\ api' = [Response("generate", id, 200) EXCEPT
                                       !.missing = missing,
                                       !.instance_id = Cardinality(instances) + 1]
    /\ UNCHANGED << templates, variables, nextId, ing, match, render, sim >>

\* template_variable.template_id: ForeignKey(..., ondelete="CASCADE").
DeleteCascade(id) == variables \ VariablesOf(id)

\* instance.template_id: ForeignKey(..., ondelete="SET NULL"); NULL is 0.
DeleteSetNull(id) ==
    { IF i.template_id = id THEN [i EXCEPT !.template_id = 0] ELSE i : i \in instances }

\* A delete that answers 200 and leaves the row where it is.
DeleteRowKept(id) == templates

\* db.delete(template); db.commit(), lines 218-219 of routers/template.py.
DeleteRow(id) == { t \in templates : t.id # id }

\* delete_template, routers/template.py lines 176-249.
DeleteTemplate ==
    /\ \E id \in 1..MaxTemplates, store \in StoreOutcomes :
          IF store = "query_fails"
          THEN /\ api' = [Response("delete", id, 500) EXCEPT !.detail = "database"]
               /\ UNCHANGED << templates, variables, instances >>
          ELSE IF id \notin TemplateIds
          THEN /\ api' = Response("delete", id, 404)
               /\ UNCHANGED << templates, variables, instances >>
          ELSE IF store = "commit_fails"
          THEN /\ api' = [Response("delete", id, 500) EXCEPT !.detail = "database"]
               /\ UNCHANGED << templates, variables, instances >>
          ELSE /\ templates' = DeleteRow(id)
               /\ variables' = DeleteCascade(id)
               /\ instances' = DeleteSetNull(id)
               /\ api' = [Response("delete", id, 200) EXCEPT
                            !.variables_count = Cardinality(VariablesOf(id))]
    /\ UNCHANGED << nextId, ing, match, render, sim >>

\* get_template, routers/template.py lines 109-173.
GetTemplate ==
    /\ \E id \in 1..MaxTemplates, store \in StoreOutcomes :
          api' = IF store = "query_fails"
                 THEN [Response("get", id, 500) EXCEPT !.detail = "database"]
                 ELSE Response("get", id, IF id \in TemplateIds THEN 200 ELSE 404)
    /\ UNCHANGED << templates, variables, nextId, ing, match, instances, render, sim >>

\* ------------------------------------ EmbeddingService.compute_similarity
\* Largest length of a vector.
MaxDim == 2

\* Vectors are lists of small integers; the empty list stands for None too
\* (line 62 tests `not embedding1`, true of both).
Components == {-1, 0, 1}
Vectors == UNION { [1..n -> Components] : n \in 0..MaxDim }

\* np.dot(vec1, vec2), over the common length of the two vectors.
RECURSIVE dot_upto(_, _, _)
dot_upto(a, b, n) == IF n = 0 THEN 0 ELSE a[n] * b[n] + dot_upto(a, b, n - 1)

\* The square of np.linalg.norm(vec).
NormSq(a) == dot_upto(a, a, Len(a))

\* The integer square root, for arguments up to (100 * MaxDim) squared.
ISqrt(n) == CHOOSE r \in 0..(100 * MaxDim) : r * r <= n /\ n < (r + 1) * (r + 1)

\* Lines 82-84: dot / (norm1 * norm2) in 1/10000, remapped by (x + 1) / 2
\* and clamped to [0, 1].  With a zero norm the dot product is zero too and
\* numpy's 0.0 / 0.0 is nan, with a warning and no exception; min(1.0, nan)
\* is 1.0, so the expression of line 84 gives 1.0.
Remapped(dot, normSq1, normSq2) ==
    IF normSq1 * normSq2 = 0 THEN 10000
    ELSE LET cosine == (dot * 1000000) \div ISqrt(normSq1 * normSq2 * 10000)
             half == (cosine + 10000) \div 2
         IN  IF half < 0 THEN 0 ELSE IF half > 10000 THEN 10000 ELSE half

\* The computation without the test of the norms.
ZeroNormUntested(normSq1, normSq2) == FALSE

\* Line 78: norm1 == 0 or norm2 == 0.
ZeroNorm(normSq1, normSq2) == normSq1 = 0 \/ normSq2 = 0

\* compute_similarity, lines 62-89, in 1/10000.
compute_similarity(embedding1, embedding2) ==
    IF embedding1 = <<>> \/ embedding2 = <<>> THEN 0
    ELSE IF Len(embedding1) # Len(embedding2) THEN 0
    ELSE LET normSq1 == NormSq(embedding1)
             normSq2 == NormSq(embedding2)
         IN  IF ZeroNorm(normSq1, normSq2) THEN 0
             ELSE Remapped(dot_upto(embedding1, embedding2, Len(embedding1)),
                           normSq1, normSq2)

\* No call yet; similarity is the value returned.
IdleSimilarity ==
    [pc |-> "idle", embedding1 |-> <<>>, embedding2 |-> <<>>, similarity |-> 0]

\* similarity = compute_similarity(embedding1, embedding2)
ComputeSimilarity ==
    /\ sim.pc = "input"
    /\ sim' = [sim EXCEPT !.pc = "returned",
                          !.similarity = compute_similarity(sim.embedding1,
                                                            sim.embedding2)]
    /\ UNCHANGED << templates, variables, nextId, ing, match, instances, api, render >>

Init ==
    /\ templates = {}
    /\ variables = {}
    /\ nextId = 1
    /\ ing = [p \in Ingestors |-> IdleIngestion]
    /\ match = IdleMatch
    /\ instances = {}
    /\ api = IdleApi
    /\ render = IdleRender
    /\ sim = IdleSimilarity

\* The render engine given a body and an answers dict.
InitRender ==
    /\ templates = {}
    /\ variables = {}
    /\ nextId = 1
    /\ ing = [p \in Ingestors |-> IdleIngestion]
    /\ match = IdleMatch
    /\ instances = {}
    /\ api = IdleApi
    /\ sim = IdleSimilarity
    /\ render \in { [IdleRender EXCEPT !.pc = "input", !.body = body, !.answers = answers] :
                      body \in RenderBodies,
                      answers \in AnswerDicts(RenderKeys, RenderValues, MaxAnswers)
                                    \cup {NotADict} }

\* compute_similarity given two vectors.
InitSimilarity ==
    /\ templates = {}
    /\ variables = {}
    /\ nextId = 1
    /\ ing = [p \in Ingestors |-> IdleIngestion]
    /\ match = IdleMatch
    /\ instances = {}
    /\ api = IdleApi
    /\ render = IdleRender
    /\ sim \in { [IdleSimilarity EXCEPT !.pc = "input", !.embedding1 = a,
                                        !.embedding2 = b] : a, b \in Vectors }

\* The steps of a started generate_template call.
IngestStep(p) ==
    \/ IngestCheck(p)
    \/ IngestSaveTemplate(p)
    \/ IngestSaveVariables(p)

\* One match query at a time, beside the uploads of one client.
Next ==
    \/ MatchStart
    \/ MatchSearch
    \/ MatchRerank
    \/ MatchFallback
    \/ MatchFallbackReturn
    \/ Upload(Uploader)
    \/ IngestStep(Uploader)
    \/ IngestStep(Query)

Spec == Init /\ [][Next]_vars

\* Two clients uploading concurrently, no match query.
NextIngest ==
    \/ \E p \in Uploads : Upload(p)
    \/ \E p \in Uploads : IngestStep(p)

SpecIngest == Init /\ [][NextIngest]_vars

\* The render engine applied to one body and one answers dict.
NextRender ==
    \/ RenderDraft
    \/ GetMissingVariables

SpecRender == InitRender /\ [][NextRender]_vars

\* compute_similarity applied to one pair of vectors.
NextSimilarity == ComputeSimilarity

SpecSimilarity == InitSimilarity /\ [][NextSimilarity]_vars

\* One client uploading, beside calls of /draft/generate.
NextDraft ==
    \/ Upload(Uploader)
    \/ IngestStep(Uploader)
    \/ GenerateDraft

SpecDraft == Init /\ [][NextDraft]_vars

\* One client uploading, beside DELETE and GET /template/{template_id}.
NextDelete ==
    \/ Upload(Uploader)
    \/ IngestStep(Uploader)
    \/ DeleteTemplate
    \/ GetTemplate

SpecDelete == Init /\ [][NextDelete]_vars

\* ======================================================== the match pipeline
\* The semantic_similarity field of the candidate the final top_match names,
\* 0.0 when it names none.
SimilarityOfTop ==
    LET hits == { i \in DOMAIN match.candidates :
                    match.candidates[i].template_id = match.result.template_id }
    IN  IF hits = {} THEN 0
        ELSE match.candidates[CHOOSE i \in hits : \A j \in hits : i <= j].semantic_similarity

\* The re-ranker returned a top_match that fits the schema and the decision
\* has been taken.
Decided ==
    /\ match.pc \in {"fallback", "generating", "done"}
    /\ match.reply = "found"
    /\ match.conforms

C6_FallbackFailureIsNoMatch ==
    (match.pc = "done" /\ match.failedAt = "fallback") =>
        /\ match.outcome # "error"
        /\ match.events[Len(match.events)] # "error"

\* C7: every failure of the re-ranker (it raises, is unparsable, reports no
\* match, or returns a top_match that does not fit the schema) sends the run
\* to the web fallback and never ends it with an error.
C7_RerankFailureFallsBack ==
    (match.rerankCalls > 0 /\ (match.reply = "no_match" \/ ~match.conforms)) =>
        /\ match.fallback # "no"
        /\ match.failedAt # "rerank"

\* C8: when the query cannot be embedded the run ends with an error and
\* neither the re-ranker nor the web fallback is called.
C8_EmbeddingFailureIsFatal ==
    match.failedAt = "embedding" =>
        /\ match.pc = "done"
        /\ match.outcome = "error"
        /\ match.events = << "searching", "error" >>
        /\ match.embedCalls = 1
        /\ match.rerankCalls = 0
        /\ match.fallbackCalls = 0
        /\ ing[Query].pc = "idle"

C8_Witness == match.pc = "done" /\ match.failedAt = "embedding"

\* C9: when the search returns no candidate (no row has an embedding) the
\* run goes straight to the web fallback and the re-ranker is never called.
C9_ColdIndexSkipsReranker ==
    /\ [](match.fallback = "cold" =>
            /\ match.rerankCalls = 0
            /\ match.candidates = <<>>
            /\ match.reply = "none")
    /\ [][(/\ match.pc = "search"
           /\ match'.pc # "search"
           /\ match'.failedAt = "none"
           /\ Indexed = {})
          => (/\ match'.pc = "fallback"
              /\ match'.fallback = "cold"
              /\ match'.rerankCalls = 0)]_vars

\* A cold-index run that ended with a web template.
C9_Witness ==
    /\ match.fallback = "cold"
    /\ match.pc = "done"
    /\ match.outcome = "web"
    /\ match.fallbackCalls = 1

TerminalCount ==
    Cardinality({ i \in DOMAIN match.events : match.events[i] \in TerminalEvents })

\* C10: every run of the stream ends with exactly one terminal event (a
\* result or an error) and emits nothing after it, whatever path it takes.
C10_OneTerminalEvent ==
    /\ match.pc = "done" =>
          /\ TerminalCount = 1
          /\ match.events[Len(match.events)] \in TerminalEvents
    /\ match.pc # "done" => TerminalCount = 0

\* A run that went through re-ranking, the web fallback and ingestion.
C10_Witness ==
    /\ match.pc = "done"
    /\ match.outcome = "web"
    /\ match.rerankCalls = 1
    /\ Len(match.events) = 7

\* ================================================================ ingestion
\* C2: no template row is inserted unless the duplicate check ran on its
\* embedding earlier in the same generate_template call.
C2_EveryInsertChecked == \A t \in templates : t.checked

\* C3: the insert of a template with its variables is atomic: once a call
\* has ended, the row it inserted is there with all its variables or it
\* inserted nothing.
C3_InsertIsAtomic ==
    \A p \in Ingestors :
        (ing[p].pc = "done" /\ ing[p].created # 0) =>
            Cardinality(VariablesOf(ing[p].created)) = ing[p].wanted

\* C4: an ingestion whose embedding equals that of a row already inserted by
\* an earlier ingestion gets that row from the duplicate check (similarity
\* 1.0), returns it, and inserts nothing.
C4_SameContentReturnsExisting ==
    [][\A p \in Uploads :
         (/\ ing[p].pc = "check"
          /\ ing'[p].pc # "check"
          /\ ing'[p].status # "error"
          /\ \E t \in templates : t.embedding = ing[p].embedding)
         => (/\ ing'[p].pc = "done"
             /\ ing'[p].status = "existing"
             /\ ing'[p].created = 0
             /\ \E t \in templates :
                  /\ t.id = ing'[p].ret
                  /\ t.embedding = ing[p].embedding
             /\ ing'[p].similarity = 10000
             /\ templates' = templates
             /\ nextId' = nextId)]_vars

\* The second of two ingestions of the same content has returned the one row.
C4_Witness ==
    \E p \in Uploads :
        /\ ing[p].pc = "done"
        /\ ing[p].status = "existing"
        /\ ing[p].similarity = 10000
        /\ Cardinality(templates) = 1

NearDuplicates(t, u) ==
    /\ t.id # u.id
    /\ t.embedding # NoEmbedding
    /\ u.embedding # NoEmbedding
    /\ Similarity(t.embedding, u.embedding) >= DUPLICATE_THRESHOLD

\* C5: two rows with similarity >= 0.90 come from ingestions that raced: the
\* later row passed its duplicate check before the earlier row was inserted
\* (and such a pair is reachable: C5_Witness).
C5_NearDuplicatesOnlyByRace ==
    \A t, u \in templates :
        (NearDuplicates(t, u) /\ t.id < u.id) => (u.checked /\ t.id \notin u.seen)

C5_Witness == \E t, u \in templates : NearDuplicates(t, u)

\* ================================================= calls per match query
\* The order of the states of one run.
PcRank(pc) ==
    CASE pc = "idle" -> 0
      [] pc = "search" -> 1
      [] pc = "rerank" -> 2
      [] pc = "fallback" -> 3
      [] pc = "generating" -> 4
      [] pc = "done" -> 5

\* C11 as amended: within one run the query is embedded at most once, the
\* re-ranker and the web source are called at most once each, a document is
\* embedded at most once and only by the ingestion inside the web fallback,
\* and the run only moves forward through its states (a new run starts only
\* from idle or done).
C11_NoRetry ==
    /\ [](/\ match.embedCalls <= 1
          /\ match.rerankCalls <= 1
          /\ match.fallbackCalls <= 1
          /\ match.docEmbedCalls <= match.fallbackCalls)
    /\ [][match'.pc # match.pc =>
            \/ PcRank(match'.pc) > PcRank(match.pc)
            \/ match.pc = "done" /\ match'.pc = "search" /\ match'.embedCalls = 0]_vars

\* A run that called all three collaborators and embedded a document.
C11_Witness ==
    /\ match.pc = "done"
    /\ match.embedCalls = 1
    /\ match.rerankCalls = 1
    /\ match.fallbackCalls = 1
    /\ match.docEmbedCalls = 1

\* C11 as stated: the embedding function is invoked at most once in a run.
C11_EmbeddingInvokedOnce == match.embedCalls + match.docEmbedCalls <= 1

\* ========================================================= the render engine
\* The keys of at most two word characters.
Words == { << c >> : c \in WordChars } \cup { << c, d >> : c, d \in WordChars }

\* The keys whose placeholder occurs in the body proper.
PlaceholderKeys(body) ==
    { k \in Words : Contains(AfterFrontMatter(body), Placeholder(k)) }

Rendered == render.pc \in {"rendered", "checked"}

\* C12: a placeholder whose key has no answer, or a null or empty one, is
\* still in the rendered text.
C12_UnansweredLeftUntouched ==
    (Rendered /\ IsDict(render.answers)) =>
        \A k \in PlaceholderKeys(render.body) :
            (\/ k \notin AnswerKeys(render.answers)
             \/ AnswerOf(render.answers, k) \in { None, <<>> })
            => Contains(render.draft, Placeholder(k))

\* The same dict with its items in every order.
Orders(answers) ==
    { [i \in DOMAIN answers |-> answers[f[i]]] :
        f \in { g \in [DOMAIN answers -> DOMAIN answers] :
                  \A i, j \in DOMAIN answers : i # j => g[i] # g[j] } }

\* C13: the rendered text is the same for every order of the items of the
\* answers dict.
C13_OrderIrrelevant ==
    Rendered =>
        \A other \in Orders(render.answers) :
            render_draft(render.body, other) = render.draft

\* The keys with an answer that is neither null nor blank.
Answered(answers) ==
    { k \in AnswerKeys(answers) :
        AnswerOf(answers, k) # None /\ strip(AnswerOf(answers, k)) # <<>> }

\* C14: with an answer for every key of the body, rendering the rendered
\* text again with the same answers gives the same text.
C14_RenderIdempotent ==
    (Rendered /\ PlaceholderKeys(render.body) \subseteq Answered(render.answers))
        => render_draft(render.draft, render.answers) = render.draft

SavedAs == { i \in instances : i.id = api.instance_id }

\* C16: for an existing template and any answers, generate_draft is stopped
\* only by a failing commit of the store, never by missing variables: it
\* answers 200 with the partial draft and the missing keys and adds exactly
\* one instance holding that draft.
C16_DraftNeverBlocked ==
    /\ []((api.op = "generate" /\ api.status = 500) => api.detail = "database")
    /\ [][(api' # api /\ api'.op = "generate" /\ api'.id \in TemplateIds) =>
            /\ api'.status \in {200, 500}
            /\ api'.status = 500 => instances' = instances
            /\ api'.status = 200 =>
                 /\ Cardinality(instances') = Cardinality(instances) + 1
                 /\ \E answers \in DraftAnswers :
                      /\ instances' \ instances =
                           { [id |-> api'.instance_id, template_id |-> api'.id,
                              draft_md |-> render_draft(template_body(api'.id), answers)] }
                      /\ python_set(api'.missing) =
                           PlaceholderKeys(template_body(api'.id)) \ Answered(answers)]_vars

\* A draft saved with one of its two placeholders still in it and reported
\* missing.
C16_Witness ==
    /\ api.op = "generate"
    /\ api.status = 200
    /\ Len(api.missing) = 1
    /\ \E i \in SavedAs :
          /\ i.template_id = api.id
          /\ Contains(i.draft_md, Placeholder(api.missing[1]))

\* ========================================================= the duplicate check
\* The duplicate check of ingestion p returns in this step.
CheckReturns(p) ==
    /\ ing[p].pc = "check"
    /\ ing'[p].pc # "check"
    /\ ing'[p].status # "error"

\* The highest similarity of e to a row with an embedding.
BestSimilarity(e) ==
    CHOOSE s \in { Similarity(e, t.embedding) : t \in Indexed } :
        \A t \in Indexed : s >= Similarity(e, t.embedding)

C18_CheckFailurePropagates ==
    /\ [](\A p \in Uploads :
            ing[p].detail = "duplicate_check" =>
               /\ ing[p].pc = "done"
               /\ ing[p].status = "error"
               /\ ing[p].ret = 0
               /\ ing[p].created = 0)
    /\ [][\A p \in Uploads :
            (ing'[p].detail = "duplicate_check" /\ ing'[p] # ing[p]) =>
               /\ ing[p].pc = "check"
               /\ templates' = templates
               /\ variables' = variables
               /\ nextId' = nextId]_vars

\* A failed check against a store that holds a row.
C18_Witness ==
    \E p \in Uploads :
        /\ ing[p].detail = "duplicate_check"
        /\ ing[p].status = "error"
        /\ Indexed # {}

C20_SimilarityInUnitInterval ==
    /\ \A i \in DOMAIN match.candidates :
          match.candidates[i].semantic_similarity \in 0..10000
    /\ match.outcome = "accepted" => match.result.semantic_similarity \in 0..10000

\* ================================================== the web result (C21)
\* C21: a run whose web fallback produced a template ends with one result
\* event whose top_match has confidence exactly 0.85, source "web" and the
\* url of the web result that was used, beside an empty list of
\* alternatives; and every run that called the fallback and did not fail
\* ends this way.
C21_WebMatchShape ==
    /\ match.outcome = "web" =>
          /\ match.pc = "done"
          /\ match.fallbackCalls = 1
          /\ match.events[Len(match.events)] = "success"
          /\ match.result.template_id # 0
          /\ match.result.confidence = WEB_CONFIDENCE
          /\ match.result.source = "web"
          /\ match.result.web_url # "None"
          /\ match.result.web_url = match.web_url
          /\ match.result.alternatives = 0
    /\ (match.pc = "done" /\ match.fallbackCalls = 1 /\ match.failedAt = "none") =>
          match.outcome = "web"

\* A web result for a template the fallback has just stored.
C21_Witness ==
    /\ match.outcome = "web"
    /\ match.result.web_url = "https://a"
    /\ match.result.template_id = match.inserted
    /\ match.result.template_id \in TemplateIds

C23_RenderNeverFails ==
    /\ Rendered => render.draft # ValueError
    /\ render.pc = "checked" =>
          python_set(render.missing) =
              PlaceholderKeys(render.body) \
                  (IF IsDict(render.answers) THEN Answered(render.answers) ELSE {})

\* ============================================== compute_similarity (C24)
\* C24: compute_similarity returns exactly 0.0 when either vector is empty,
\* when the two vectors differ in length, or when either has zero norm; in
\* every case it returns a number between 0 and 1.
C24_DegenerateIsZero ==
    sim.pc = "returned" =>
        /\ sim.similarity \in 0..10000
        /\ (\/ sim.embedding1 = <<>>
            \/ sim.embedding2 = <<>>
            \/ Len(sim.embedding1) # Len(sim.embedding2)
            \/ \A i \in DOMAIN sim.embedding1 : sim.embedding1[i] = 0
            \/ \A i \in DOMAIN sim.embedding2 : sim.embedding2[i] = 0)
           => sim.similarity = 0

\* Two vectors of the same length, the second one all zeros.
C24_Witness ==
    /\ sim.pc = "returned"
    /\ Len(sim.embedding1) = MaxDim
    /\ Len(sim.embedding2) = MaxDim
    /\ \E i \in DOMAIN sim.embedding1 : sim.embedding1[i] # 0
    /\ \A i \in DOMAIN sim.embedding2 : sim.embedding2[i] = 0
    /\ sim.similarity = 0

\* ===================================== the accepted template (C25, C26)
\* C25: the template_id of an accepted top match is the id of one of the
\* candidates the search returned for the query, hence of a template in the
\* index.
C25_AcceptedIsACandidate ==
    match.outcome = "accepted" =>
        match.result.template_id \in CandidateIds(match.candidates)

\* C26: a result with source "web" names a template that the same run
\* inserted; a template that was in the index before is never returned as
\* a web result.
C26_WebMatchIsNew ==
    match.outcome = "web" => match.result.template_id >= match.startId

\* ============================================ missing and the draft (C27)
\* C27: in a response of generate_draft a key is among missing_variables
\* exactly when its placeholder is still in the draft; so the list is empty
\* exactly when the draft holds no placeholder.
C27_MissingIffPlaceholderRemains ==
    (api.op = "generate" /\ api.status = 200) =>
        \A i \in SavedAs :
            /\ \A k \in Words :
                  k \in python_set(api.missing) <=>
                      Contains(i.draft_md, Placeholder(k))
            /\ api.missing = <<>> <=> re_findall(i.draft_md) = <<>>

\* ================================================ the conversion branch (C28)
\* C28: an ingestion that took the conversion branch (the document is not
\* legal, a legal template type is suggested) and in which no collaborator
\* failed ends with the template it inserted, its variables saved, and not
\* with an error.
C28_ConversionSucceeds ==
    \A p \in Uploads :
        (ing[p].pc = "done" /\ ing[p].branch = "conversion" /\ ing[p].detail # "commit")
            => /\ ing[p].status = "created"
               /\ ing[p].ret = ing[p].created
               /\ Cardinality(VariablesOf(ing[p].created)) = ing[p].wanted

\* =========================================== sequential ingestion (C29)
\* C29: with one ingestion at a time and no other writer of the index, no
\* two templates with an embedding have a similarity of 0.90 or more.
C29_NoNearDuplicatesWhenSequential ==
    \A t, u \in Indexed :
        t # u => Similarity(t.embedding, u.embedding) < DUPLICATE_THRESHOLD

\* Two templates just below the threshold of each other, each inserted
\* after its duplicate check.
C29_Witness ==
    \E t, u \in Indexed :
        /\ t # u
        /\ t.checked /\ u.checked
        /\ Similarity(t.embedding, u.embedding) = DUPLICATE_THRESHOLD - 1

\* ===================================== what a query does to the index (C30)
\* C30: the steps of a match query change templates and variables only
\* while its web fallback is generating a template; a run that ends
\* accepted or fails at the embedding has not called the fallback and has
\* inserted nothing; and one run inserts at most one template.
C30_QueryWritesOnlyOnFallback ==
    /\ []((match.outcome = "accepted" \/ match.failedAt = "embedding") =>
            /\ match.fallbackCalls = 0
            /\ match.inserted = 0
            /\ ing[Query].pc = "idle")
    /\ [][((templates' # templates \/ variables' # variables)
             /\ ing'[Uploader] = ing[Uploader])
           => (/\ match.pc = "generating"
               /\ match.fallbackCalls = 1
               /\ match' = match
               /\ ing[Query].created = 0
               /\ ing'[Query].created = nextId
               /\ templates \subseteq templates'
               /\ Cardinality(templates' \ templates) = 1)]_vars

\* A run that went to the web after rejecting its candidates and inserted
\* one template, the only row added since it began.
C30_Witness ==
    /\ match.outcome = "web"
    /\ match.fallback = "below"
    /\ match.inserted = match.startId
    /\ match.inserted \in TemplateIds
    /\ nextId = match.startId + 1
====
